---- MODULE Spec2Model ----
(***************************************************************************)
(* Verification model of the hikma-health-admin utilities                  *)
(*   orderedList, deduplicateOptions, safeJSONParse   (utils/misc)         *)
(*   fieldOptionsUnion                  (FormBuilder/InputSettingsList)    *)
(*   UsersList                          (pages/app/users-list)             *)
(***************************************************************************)
EXTENDS Integers, Sequences, FiniteSets, Bags, TLC

VARIABLES
    op,             \* the program under execution
    pc,             \* position of the caller: "call" before, "done" after
    list1, list2,   \* arguments of orderedList
    olResult,       \* outcome of orderedList
    options1, options2, \* arguments of fieldOptionsUnion
    unionResult,    \* outcome of fieldOptionsUnion
    options,        \* argument of deduplicateOptions
    dedupResult,    \* outcome of deduplicateOptions
    input, defaultValue, \* arguments of safeJSONParse
    parseResult,    \* outcome of safeJSONParse
    token,          \* localStorage 'token' present
    users,          \* UsersList state: users
    loading,        \* UsersList state: loading
    loadState,      \* the getUsers promise: "idle", "pending", "settled"
    loaded,         \* the users delivered by the initial load
    inflight,       \* deleteUser promises not yet settled
    succeeded,      \* emails whose DELETE request was answered ok
    failed,         \* emails whose DELETE request was rejected
    issued          \* number of DELETE requests issued so far

olVars    == <<list1, list2, olResult>>
optVars   == <<options1, options2, unionResult, options, dedupResult>>
parseVars == <<input, defaultValue, parseResult>>
userVars  == <<token, users, loading, loadState, loaded, inflight, succeeded, failed, issued>>
vars      == <<op, pc, olVars, optVars, parseVars, userVars>>

----------------------------------------------------------------------------
(* Bounds *)
MaxList1 == 3
MaxList2 == 3
MaxOptions1 == 2
MaxOptions2 == 2
MaxDedup == 3
MaxDeletes == 3

----------------------------------------------------------------------------
(* JavaScript values.  A top-level argument is a record with a kind and,   *)
(* for arrays, its items.                                                  *)

Tokens == {"a", "b", "_", ""}

SeqsUpTo(S, n) == UNION {[1..k -> S] : k \in 0..n}

Arr(items) == [kind |-> "array", items |-> items]
NonArrays  == {[kind |-> k, items |-> <<>>] : k \in {"null", "undefined", "string", "object"}}

IsArray(v) == v.kind = "array"

\* outcome of a call: a returned value or a thrown TypeError
Return(v) == [threw |-> FALSE, value |-> v]
Throw     == [threw |-> TRUE, value |-> [kind |-> "undefined", items |-> <<>>]]
NoCall    == [threw |-> FALSE, value |-> [kind |-> "undefined", items |-> <<>>]]

\* truthiness of a string item: only the empty string is falsy
Truthy(item) == item # ""

----------------------------------------------------------------------------
(* orderedList *)

\* countMap.set(item, (countMap.get(item) || 0) + 1)
CountInc(countMap, item) ==
    IF item \in DOMAIN countMap
    THEN [countMap EXCEPT ![item] = @ + 1]
    ELSE [k \in DOMAIN countMap \cup {item} |-> IF k = item THEN 1 ELSE countMap[k]]

\* if (count > 1) countMap.set(item, count - 1) else countMap.delete(item)
CountDec(countMap, item) ==
    IF countMap[item] > 1
    THEN [countMap EXCEPT ![item] = @ - 1]
    ELSE [k \in DOMAIN countMap \ {item} |-> countMap[k]]

RECURSIVE BuildCountMap(_, _, _)
BuildCountMap(remaining, i, countMap) ==
    IF i > Len(remaining) THEN countMap
    ELSE BuildCountMap(remaining, i + 1, CountInc(countMap, remaining[i]))

\* for (const item of list2) { ... }
RECURSIVE WalkList2(_, _, _, _)
WalkList2(l2, i, countMap, result) ==
    IF i > Len(l2) THEN [countMap |-> countMap, result |-> result]
    ELSE IF l2[i] = "_" THEN WalkList2(l2, i + 1, countMap, result)
    ELSE IF l2[i] \in DOMAIN countMap
         THEN WalkList2(l2, i + 1, CountDec(countMap, l2[i]), Append(result, l2[i]))
         ELSE WalkList2(l2, i + 1, countMap, result)

\* remaining.forEach((item) => { ... })
RECURSIVE WalkRemaining(_, _, _, _)
WalkRemaining(remaining, i, countMap, result) ==
    IF i > Len(remaining) THEN result
    ELSE IF remaining[i] \in DOMAIN countMap
         THEN WalkRemaining(remaining, i + 1, CountDec(countMap, remaining[i]),
                            Append(result, remaining[i]))
         ELSE WalkRemaining(remaining, i + 1, countMap, result)

EmptyMap == [k \in {} |-> 0]

\* variant: the falsy filter applied before the list2 guard
orderedList_filterFirst(l1, l2) ==
    IF ~IsArray(l1) THEN Return(Arr(<<>>))
    ELSE IF ~IsArray(l2) /\ IsArray(l1) THEN Return(Arr(SelectSeq(l1.items, Truthy)))
    ELSE LET remaining == SelectSeq(l1.items, Truthy)
             countMap  == BuildCountMap(remaining, 1, EmptyMap)
             walked    == WalkList2(l2.items, 1, countMap, <<>>)
         IN  Return(Arr(WalkRemaining(remaining, 1, walked.countMap, walked.result)))

orderedList(l1, l2) ==
    IF ~IsArray(l1) THEN Return(Arr(<<>>))
    ELSE IF ~IsArray(l2) /\ IsArray(l1) THEN Return(l1)
    ELSE LET remaining == SelectSeq(l1.items, Truthy)
             countMap  == BuildCountMap(remaining, 1, EmptyMap)
             walked    == WalkList2(l2.items, 1, countMap, <<>>)
         IN  Return(Arr(WalkRemaining(remaining, 1, walked.countMap, walked.result)))

----------------------------------------------------------------------------
(* Options: { value, label } objects, null and undefined entries *)

OptionValues == {"yes", "no", "2"}
OptionLabels == {"Yes", "Y"}
DedupValues  == {"a", "b"}
DedupLabels  == {"A", "A2"}

Option(v, l) == [kind |-> "object", value |-> v, label |-> l]
NullEntry    == [kind |-> "null", value |-> "", label |-> ""]
UndefEntry   == [kind |-> "undefined", value |-> "", label |-> ""]

FieldOptions == {Option(v, l) : v \in OptionValues, l \in OptionLabels}
DedupEntries == {Option(v, l) : v \in DedupValues, l \in DedupLabels} \cup {NullEntry, UndefEntry}

\* truthiness of an array entry: objects are truthy, null and undefined falsy
TruthyEntry(o) == o.kind = "object"

\* A JavaScript object used as a map: keys in property order, vals by key.
EmptyObj == [keys |-> <<>>, vals |-> [k \in {} |-> NullEntry]]

\* integer-like property keys are enumerated first, in ascending order
IsIndexKey(k) == k \in {"2"}
IndexOf(k)    == CASE k = "2" -> 2 [] OTHER -> 0

RECURSIVE InsertKey(_, _)
InsertKey(keys, k) ==
    IF ~IsIndexKey(k) THEN Append(keys, k)
    ELSE IF keys = <<>> THEN <<k>>
    ELSE IF IsIndexKey(Head(keys)) /\ IndexOf(Head(keys)) < IndexOf(k)
         THEN <<Head(keys)>> \o InsertKey(Tail(keys), k)
         ELSE <<k>> \o keys

\* { ...obj, [key]: val }
ObjSet(obj, key, val) ==
    IF key \in DOMAIN obj.vals
    THEN [keys |-> obj.keys, vals |-> [obj.vals EXCEPT ![key] = val]]
    ELSE [keys |-> InsertKey(obj.keys, key),
          vals |-> [k \in DOMAIN obj.vals \cup {key} |-> IF k = key THEN val ELSE obj.vals[k]]]

\* opts.reduce((acc, option) => ({ ...acc, [option.value]: option }), {})
RECURSIVE ToOptionsMap(_, _, _)
ToOptionsMap(opts, i, acc) ==
    IF i > Len(opts) THEN acc
    ELSE ToOptionsMap(opts, i + 1, ObjSet(acc, opts[i].value, opts[i]))

\* { ...a, ...b }
RECURSIVE ObjSpread(_, _, _)
ObjSpread(a, b, i) ==
    IF i > Len(b.keys) THEN a
    ELSE ObjSpread(ObjSet(a, b.keys[i], b.vals[b.keys[i]]), b, i + 1)

\* Object.values(obj)
ObjectValues(obj) == [i \in 1..Len(obj.keys) |-> obj.vals[obj.keys[i]]]

\* variant: the two maps spread in the opposite order
fieldOptionsUnion_swapped(o1, o2) ==
    LET options1Map == ToOptionsMap(o1, 1, EmptyObj)
        options2Map == ToOptionsMap(o2, 1, EmptyObj)
    IN  Return(Arr(ObjectValues(ObjSpread(options2Map, options1Map, 1))))

fieldOptionsUnion(o1, o2) ==
    LET options1Map == ToOptionsMap(o1, 1, EmptyObj)
        options2Map == ToOptionsMap(o2, 1, EmptyObj)
    IN  Return(Arr(ObjectValues(ObjSpread(options1Map, options2Map, 1))))

\* for (const option of ...) { if (!seenValues.has(option.value)) { ... } }
RECURSIVE DedupLoop(_, _, _, _)
DedupLoop(opts, i, seenValues, deduplicatedOptions) ==
    IF i > Len(opts) THEN deduplicatedOptions
    ELSE IF opts[i].value \notin seenValues
         THEN DedupLoop(opts, i + 1, seenValues \cup {opts[i].value},
                        Append(deduplicatedOptions, opts[i]))
         ELSE DedupLoop(opts, i + 1, seenValues, deduplicatedOptions)

\* variant: a later entry with a seen value replaces the kept one
RECURSIVE DedupLoopLast(_, _, _, _)
DedupLoopLast(opts, i, seenValues, deduplicatedOptions) ==
    IF i > Len(opts) THEN deduplicatedOptions
    ELSE IF opts[i].value \notin seenValues
         THEN DedupLoopLast(opts, i + 1, seenValues \cup {opts[i].value},
                            Append(deduplicatedOptions, opts[i]))
         ELSE DedupLoopLast(opts, i + 1, seenValues,
                            [j \in DOMAIN deduplicatedOptions |->
                                IF deduplicatedOptions[j].value = opts[i].value
                                THEN opts[i] ELSE deduplicatedOptions[j]])

deduplicateOptions_keepLast(o) ==
    IF ~IsArray(o) THEN Throw
    ELSE Return(Arr(DedupLoopLast(SelectSeq(o.items, TruthyEntry), 1, {}, <<>>)))

\* options.filter on a non-array raises a TypeError
deduplicateOptions(o) ==
    IF ~IsArray(o) THEN Throw
    ELSE Return(Arr(DedupLoop(SelectSeq(o.items, TruthyEntry), 1, {}, <<>>)))

----------------------------------------------------------------------------
(* safeJSONParse.  A value is its kind and the JSON text of its content    *)
(* (for a string, the characters of the string).                           *)

JV(k, t) == [kind |-> k, text |-> t]

JUndefined == JV("undefined", "")
JNull      == JV("null", "null")

\* typeof v
TypeOf(v) ==
    CASE v.kind = "undefined" -> "undefined"
      [] v.kind = "string"    -> "string"
      [] v.kind = "number"    -> "number"
      [] v.kind = "boolean"   -> "boolean"
      [] OTHER                -> "object"    \* null, arrays and plain objects

\* Array.isArray(v)
ArrayIsArray(v) == v.kind = "array"

StringTexts == {"null", "[1]", "{\"a\":1}", "1", "true", "\"x\"", "oops", ""}

\* JSON.parse(text): the parsed value, or a SyntaxError
JSONParse(text) ==
    CASE text = "null"        -> [ok |-> TRUE, value |-> JNull]
      [] text = "[1]"         -> [ok |-> TRUE, value |-> JV("array", "[1]")]
      [] text = "{\"a\":1}"   -> [ok |-> TRUE, value |-> JV("object", "{\"a\":1}")]
      [] text = "1"           -> [ok |-> TRUE, value |-> JV("number", "1")]
      [] text = "true"        -> [ok |-> TRUE, value |-> JV("boolean", "true")]
      [] text = "\"x\""       -> [ok |-> TRUE, value |-> JV("string", "x")]
      [] OTHER                -> [ok |-> FALSE, value |-> JUndefined]

ParseInputs ==
    {JUndefined, JNull, JV("number", "1"), JV("boolean", "true"),
     JV("array", "[]"), JV("array", "[1]"), JV("object", "{}"), JV("object", "{\"a\":1}")}
    \cup {JV("string", t) : t \in StringTexts}

ParseDefaults ==
    {JUndefined, JNull, JV("number", "0"), JV("boolean", "false"), JV("string", "dflt"),
     JV("array", "[]"), JV("object", "{}")}

safeJSONParse(in, dflt) ==
    IF in.kind = "undefined" \/ in.kind = "null" THEN dflt
    ELSE IF TypeOf(in) = TypeOf(dflt)
            /\ (IF ArrayIsArray(in) THEN ArrayIsArray(dflt) ELSE TRUE)
         THEN in
    ELSE IF TypeOf(in) = "string"
         THEN LET parsed == JSONParse(in.text)
              IN  IF ~parsed.ok THEN dflt
                  ELSE IF TypeOf(parsed.value) = TypeOf(dflt) THEN parsed.value ELSE dflt
    ELSE dflt

----------------------------------------------------------------------------
(* UsersList component.  A user is identified by its email.                *)

Emails == {"u1", "u2", "u3"}

\* lists of distinct users the server can answer with
UserLists == {s \in SeqsUpTo(Emails, Cardinality(Emails)) :
                 \A i, j \in DOMAIN s : i # j => s[i] # s[j]}

Range(s) == {s[i] : i \in DOMAIN s}

\* useEffect(() => { ... }, []) on mount
Mount ==
    /\ op = "UsersList" /\ pc = "mount"
    /\ pc' = "mounted"
    /\ loadState' = IF token THEN "pending" ELSE "none"
    /\ UNCHANGED <<op, olVars, optVars, parseVars, token, users, loading, loaded,
                   inflight, succeeded, failed, issued>>

\* getUsers resolves: result.users when response.ok, [] otherwise;
\* .then sets users and clears loading
GetUsersResolve ==
    /\ op = "UsersList" /\ loadState = "pending"
    /\ \E ok \in BOOLEAN, us \in UserLists :
          LET res == IF ok THEN us ELSE <<>>
          IN  /\ users' = res
              /\ loaded' = res
    /\ loading' = FALSE
    /\ loadState' = "settled"
    /\ UNCHANGED <<op, pc, olVars, optVars, parseVars, token, inflight, succeeded,
                   failed, issued>>

\* fetch rejects: .catch logs the error, no state is set
GetUsersReject ==
    /\ op = "UsersList" /\ loadState = "pending"
    /\ loadState' = "rejected"
    /\ UNCHANGED <<op, pc, olVars, optVars, parseVars, token, users, loading, loaded,
                   inflight, succeeded, failed, issued>>

\* confirmDelete(email), from the trash icon of a rendered row; the .then
\* callback closes over the users of the render that created the handler
ConfirmDelete ==
    /\ op = "UsersList" /\ pc = "mounted"
    /\ issued < MaxDeletes
    /\ \E email \in Range(users), confirmed \in BOOLEAN :
          IF confirmed /\ token
          THEN /\ inflight' = inflight \cup {[id |-> issued + 1, email |-> email, users |-> users]}
               /\ issued' = issued + 1
          ELSE UNCHANGED <<inflight, issued>>
    /\ UNCHANGED <<op, pc, olVars, optVars, parseVars, token, users, loading, loadState,
                   loaded, succeeded, failed>>

\* users.filter((user) => user.email !== email) over the captured users
FilterOut(us, email) == SelectSeq(us, LAMBDA u : u # email)

\* deleteUser resolves (response.ok): .then removes the user from state
DeleteUserResolve ==
    /\ op = "UsersList"
    /\ \E req \in inflight :
          /\ users' = FilterOut(req.users, req.email)
          /\ succeeded' = succeeded \cup {req.email}
          /\ inflight' = inflight \ {req}
    /\ UNCHANGED <<op, pc, olVars, optVars, parseVars, token, loading, loadState, loaded,
                   failed, issued>>

\* deleteUser rejects (!response.ok or network error): .catch logs
DeleteUserReject ==
    /\ op = "UsersList"
    /\ \E req \in inflight :
          /\ failed' = failed \cup {req.email}
          /\ inflight' = inflight \ {req}
    /\ UNCHANGED <<op, pc, olVars, optVars, parseVars, token, users, loading, loadState,
                   loaded, succeeded, issued>>

----------------------------------------------------------------------------
(* Callers of the pure utilities *)

CallOrderedList ==
    /\ op = "orderedList" /\ pc = "call"
    /\ olResult' = orderedList(list1, list2)
    /\ pc' = "done"
    /\ UNCHANGED <<op, list1, list2, optVars, parseVars, userVars>>

CallFieldOptionsUnion ==
    /\ op = "fieldOptionsUnion" /\ pc = "call"
    /\ unionResult' = fieldOptionsUnion(options1, options2)
    /\ pc' = "done"
    /\ UNCHANGED <<op, olVars, options1, options2, options, dedupResult, parseVars, userVars>>

CallDeduplicateOptions ==
    /\ op = "deduplicateOptions" /\ pc = "call"
    /\ dedupResult' = deduplicateOptions(options)
    /\ pc' = "done"
    /\ UNCHANGED <<op, olVars, options1, options2, unionResult, options, parseVars, userVars>>

CallSafeJSONParse ==
    /\ op = "safeJSONParse" /\ pc = "call"
    /\ parseResult' = safeJSONParse(input, defaultValue)
    /\ pc' = "done"
    /\ UNCHANGED <<op, olVars, optVars, input, defaultValue, userVars>>

----------------------------------------------------------------------------
(* Initial states: one program with its arguments, the others idle *)

IdleOrdered == list1 = Arr(<<>>) /\ list2 = Arr(<<>>) /\ olResult = NoCall
IdleOptions ==
    /\ options1 = <<>> /\ options2 = <<>> /\ unionResult = NoCall
    /\ options = Arr(<<>>) /\ dedupResult = NoCall
IdleParse   == input = JUndefined /\ defaultValue = JUndefined /\ parseResult = JUndefined
IdleUsers   ==
    /\ token = FALSE /\ users = <<>> /\ loading = TRUE /\ loadState = "idle"
    /\ loaded = <<>> /\ inflight = {} /\ succeeded = {} /\ failed = {} /\ issued = 0

InitOrdered ==
    /\ op = "orderedList" /\ pc = "call"
    /\ list1 \in {Arr(s) : s \in SeqsUpTo(Tokens, MaxList1)} \cup NonArrays
    /\ list2 \in {Arr(s) : s \in SeqsUpTo(Tokens, MaxList2)} \cup NonArrays
    /\ olResult = NoCall
    /\ IdleOptions /\ IdleParse /\ IdleUsers

InitUnion ==
    /\ op = "fieldOptionsUnion" /\ pc = "call"
    /\ options1 \in SeqsUpTo(FieldOptions, MaxOptions1)
    /\ options2 \in SeqsUpTo(FieldOptions, MaxOptions2)
    /\ unionResult = NoCall
    /\ options = Arr(<<>>) /\ dedupResult = NoCall
    /\ IdleOrdered /\ IdleParse /\ IdleUsers

InitDedup ==
    /\ op = "deduplicateOptions" /\ pc = "call"
    /\ options \in {Arr(s) : s \in SeqsUpTo(DedupEntries, MaxDedup)} \cup NonArrays
    /\ dedupResult = NoCall
    /\ options1 = <<>> /\ options2 = <<>> /\ unionResult = NoCall
    /\ IdleOrdered /\ IdleParse /\ IdleUsers

InitParse ==
    /\ op = "safeJSONParse" /\ pc = "call"
    /\ input \in ParseInputs
    /\ defaultValue \in ParseDefaults
    /\ parseResult = JUndefined
    /\ IdleOrdered /\ IdleOptions /\ IdleUsers

InitUsers ==
    /\ op = "UsersList" /\ pc = "mount"
    /\ token \in BOOLEAN
    /\ users = <<>> /\ loading = TRUE /\ loadState = "idle"
    /\ loaded = <<>> /\ inflight = {} /\ succeeded = {} /\ failed = {} /\ issued = 0
    /\ IdleOrdered /\ IdleOptions /\ IdleParse

Init == InitOrdered \/ InitUnion \/ InitDedup \/ InitParse \/ InitUsers

Next ==
    \/ CallOrderedList
    \/ CallFieldOptionsUnion
    \/ CallDeduplicateOptions
    \/ CallSafeJSONParse
    \/ Mount
    \/ GetUsersResolve
    \/ GetUsersReject
    \/ ConfirmDelete
    \/ DeleteUserResolve
    \/ DeleteUserReject

Spec == Init /\ [][Next]_vars

----------------------------------------------------------------------------
(* Properties *)

Count(t, s) == Cardinality({i \in DOMAIN s : s[i] = t})

SameMultiset(s, t) == \A x \in Range(s) \cup Range(t) : Count(x, s) = Count(x, t)

RECURSIVE IsSubseq(_, _)
IsSubseq(s, t) ==
    IF s = <<>> THEN TRUE
    ELSE IF t = <<>> THEN FALSE
    ELSE IF Head(s) = Head(t) THEN IsSubseq(Tail(s), Tail(t))
    ELSE IsSubseq(s, Tail(t))

\* the mentions of l2 that are kept: not "_", and fewer than Count(t, l1) kept so far
RECURSIVE KeptMentions(_, _, _, _)
KeptMentions(l1, l2, i, kept) ==
    IF i > Len(l2) THEN kept
    ELSE IF l2[i] # "_" /\ Count(l2[i], kept) < Count(l2[i], l1)
         THEN KeptMentions(l1, l2, i + 1, Append(kept, l2[i]))
         ELSE KeptMentions(l1, l2, i + 1, kept)

OrderedDone == op = "orderedList" /\ pc = "done"
BothArrays  == IsArray(list1) /\ IsArray(list2)
OlOut       == olResult.value.items
OlKept      == KeptMentions(list1.items, list2.items, 1, <<>>)
OlTail      == SubSeq(OlOut, Len(OlKept) + 1, Len(OlOut))

\* C1: for arrays list1 and list2 (the empty string and "_" allowed), the
\* multiset of orderedList(list1, list2) equals the multiset of list1.
C1_MultisetPreserved ==
    (OrderedDone /\ BothArrays) =>
        /\ ~olResult.threw
        /\ IsArray(olResult.value)
        /\ SameMultiset(OlOut, list1.items)

\* C2: orderedList(list1, []) equals list1 element by element.
C2_EmptyOrderIsIdentity ==
    (OrderedDone /\ IsArray(list1) /\ list2 = Arr(<<>>)) =>
        /\ ~olResult.threw
        /\ OlOut = list1.items

\* C3: the output of orderedList(list1, list2) begins with exactly the kept
\* mentions of list2 (not "_", at most count-in-list1 mentions per token), and
\* no error is raised.
C3_KeptMentionsFirst ==
    (OrderedDone /\ BothArrays) =>
        /\ ~olResult.threw
        /\ Len(OlOut) >= Len(OlKept)
        /\ SubSeq(OlOut, 1, Len(OlKept)) = OlKept

\* C4: what follows the list2-driven prefix is the leftover tokens of list1,
\* each with its leftover multiplicity, as a subsequence of list1.
C4_LeftoversInOriginalOrder ==
    (OrderedDone /\ BothArrays) =>
        /\ \A t \in Range(list1.items) \cup Range(OlTail) :
              Count(t, OlTail) = Count(t, list1.items) - Count(t, OlKept)
        /\ IsSubseq(OlTail, list1.items)

UnionDone == op = "fieldOptionsUnion" /\ pc = "done"
UnionOut  == unionResult.value.items
ValuesOf(opts) == {opts[i].value : i \in DOMAIN opts}

\* C5: fieldOptionsUnion returns exactly one Option per distinct value of
\* either input, and for a value occurring in both inputs the returned Option
\* is an entry of optionsB.
C5_UnionByValue ==
    UnionDone =>
        /\ ~unionResult.threw
        /\ ValuesOf(UnionOut) = ValuesOf(options1) \cup ValuesOf(options2)
        /\ \A i, j \in DOMAIN UnionOut : i # j => UnionOut[i].value # UnionOut[j].value
        /\ \A i \in DOMAIN UnionOut :
              IF UnionOut[i].value \in ValuesOf(options2)
              THEN UnionOut[i] \in Range(options2)
              ELSE UnionOut[i] \in Range(options1)

C5_Witness ==
    /\ UnionDone
    /\ \E i \in DOMAIN options1, j \in DOMAIN options2, k \in DOMAIN UnionOut :
          /\ options1[i].value = options2[j].value
          /\ options1[i].label # options2[j].label
          /\ UnionOut[k] = options2[j]
          /\ options1[i] \notin Range(options2)

DedupDone == op = "deduplicateOptions" /\ pc = "done"
DedupIn   == options.items
DedupOut  == dedupResult.value.items

\* index in the input of the first non-null entry with value v
FirstIndex(v) ==
    CHOOSE i \in DOMAIN DedupIn :
        /\ DedupIn[i].kind = "object" /\ DedupIn[i].value = v
        /\ \A j \in 1..(i - 1) : ~(DedupIn[j].kind = "object" /\ DedupIn[j].value = v)

\* C6: deduplicateOptions returns the non-null entries that are the first
\* occurrence of their value, in first-seen order: no two outputs share a
\* value and every value of a non-null input entry occurs in the output.
C6_DedupFirstOccurrence ==
    (DedupDone /\ IsArray(options)) =>
        /\ ~dedupResult.threw
        /\ \A i, j \in DOMAIN DedupOut : i # j => DedupOut[i].value # DedupOut[j].value
        /\ ValuesOf(DedupOut) = {DedupIn[i].value : i \in {k \in DOMAIN DedupIn : DedupIn[k].kind = "object"}}
        /\ \A i \in DOMAIN DedupOut : DedupOut[i] = DedupIn[FirstIndex(DedupOut[i].value)]
        /\ \A i, j \in DOMAIN DedupOut :
              i < j => FirstIndex(DedupOut[i].value) < FirstIndex(DedupOut[j].value)

C6_Witness ==
    /\ DedupDone /\ IsArray(options)
    /\ \E i, j, k \in DOMAIN DedupIn :
          /\ i < k /\ k < j
          /\ DedupIn[i].kind = "object" /\ DedupIn[j].kind = "object"
          /\ DedupIn[k].kind = "null"
          /\ DedupIn[i].value = DedupIn[j].value
          /\ DedupIn[i].label # DedupIn[j].label
    /\ Len(DedupOut) = 1
    /\ DedupOut[1] = DedupIn[1]

\* C7: neither orderedList nor deduplicateOptions ever throws, whatever the
\* input (a non-array, null, undefined, arrays with null entries).
C7_NeverThrows ==
    (pc = "done" /\ op \in {"orderedList", "deduplicateOptions"}) =>
        /\ ~olResult.threw
        /\ ~dedupResult.threw

\* C8: orderedList returns the empty sequence when list1 is not an array, and
\* list1 unchanged (falsy elements included) when list1 is an array and list2
\* is not.
C8_NonArrayFallbacks ==
    OrderedDone =>
        /\ ~IsArray(list1) => olResult = Return(Arr(<<>>))
        /\ (IsArray(list1) /\ ~IsArray(list2)) => olResult = Return(list1)

C8_Witness ==
    /\ OrderedDone
    /\ IsArray(list1) /\ ~IsArray(list2)
    /\ "" \in Range(list1.items)
    /\ Len(list1.items) = MaxList1
    /\ olResult.value.items = list1.items

ParseDone == op = "safeJSONParse" /\ pc = "done"

\* the type of a value, with array, plain object and null told apart
ExactType(v) == v.kind

\* C9: safeJSONParse returns defaultValue whenever the input (or the parsed
\* value of a string input) does not match the type of defaultValue, array,
\* plain object and null being different types; the result is an array iff
\* defaultValue is one, and never null when defaultValue is a non-null object.
C9_ParseTypeMatch ==
    ParseDone =>
        /\ parseResult # defaultValue =>
              \/ ExactType(input) = ExactType(defaultValue)
              \/ /\ input.kind = "string"
                 /\ JSONParse(input.text).ok
                 /\ ExactType(JSONParse(input.text).value) = ExactType(defaultValue)
        /\ ArrayIsArray(parseResult) <=> ArrayIsArray(defaultValue)
        /\ defaultValue.kind \in {"object", "array"} => parseResult.kind # "null"

\* C10: once the initial load has completed and every delete response has
\* been handled, users holds no user whose delete succeeded and every loaded
\* user whose delete did not succeed.
C10_DeletesApplied ==
    (op = "UsersList" /\ loadState = "settled" /\ inflight = {}) =>
        /\ \A e \in succeeded : e \notin Range(users)
        /\ \A e \in Range(loaded) \ succeeded : e \in Range(users)

====
